---- MODULE Spec2Model ----
(***************************************************************************)
(* DronCakes: the order / drone assignment and delivery lifecycle engine.  *)
(*                                                                         *)
(* State: the two module-level arrays of utils/dataStore.js (drones,       *)
(* orders) and the setTimeout callbacks that createOrder leaves pending.   *)
(* Operations: createOrder, updateOrderStatus, completeOrder               *)
(* (services/orderService.js), the firing of a pending callback,           *)
(* updateDroneStatus (services/droneService.js), reset (dataStore.js) and  *)
(* the read accessors getAllOrders and getAllDrones.                       *)
(*                                                                         *)
(* The model keeps no clock.  When a call arrives and how late the runtime *)
(* runs a callback are free; what is kept is the order the timer queue     *)
(* guarantees: a callback runs only after every callback that was          *)
(* scheduled before it with a delay no longer than its own, so an order's  *)
(* "en vuelo" callback (3 s) runs before its "entregado" callback (10 s),  *)
(* and callbacks of the same delay run in the order they were scheduled.   *)
(*                                                                         *)
(* Wall-clock readings (createdAt, estimatedDelivery, the value of         *)
(* deliveredAt) are not state of the model: deliveredAt is kept as         *)
(* "unset" (the property is absent) or "set".                              *)
(***************************************************************************)
EXTENDS Integers, Sequences, FiniteSets, TLC

\* ----------------------------------------------------------------- bounds
\* orders.length is capped: a createOrder that would push the store beyond
\* the cap is left out of the behaviours.
MaxOrders == 2
\* The cap when nobody updates an order by hand (SpecAuto).
MaxOrdersAuto == 6
\* The cap on the store, and on the callbacks pending at once, when reset
\* is among the operations (SpecLife).
MaxOrdersLife == 3
MaxTimers == 6
\* The cap on the store when updateDroneStatus is among the operations
\* (SpecDrone).
MaxOrdersDrone == 2
\* The cap on the store when the callbacks are run under fairness (SpecFair).
MaxOrdersFair == 1
\* The cap on the store when every operation but reset is called (SpecStore).
MaxOrdersStore == 1

\* ------------------------------------------------------ program constants
\* setTimeout(..., 3000): seconds from creation to the "en vuelo" callback.
InFlightDelay == 3
\* setTimeout(..., 10000): seconds from creation to the "entregado" callback.
DeliveredDelay == 10

NoCapacity == "No hay drones disponibles"
OrderNotFound == "Orden no encontrada"
DroneNotFound == "Dron no encontrado"
NoError == "none"
\* What calling a name the orderService module does not export throws.
NotAFunction == "TypeError: orderService.getOrderById is not a function"

PREPARANDO == "preparando"
EN_VUELO == "en vuelo"
ENTREGADO == "entregado"

\* The three states of the delivery lifecycle.
ValidStatuses == {PREPARANDO, EN_VUELO, ENTREGADO}

\* ------------------------------------------------------------------ inputs
Customers == {"Ana"}
Flavors == {"chocolate"}
\* updateOrderStatus takes any string the caller sends.
StatusInputs == ValidStatuses \cup {"invalid-status"}
\* Identifiers a caller may name: every id createOrder can give, and one more.
OrderIdInputs == 1..(MaxOrders + 1)
\* PUT /api/drones/:id: the id arrives as the text of the path segment.
DroneIdInputs == {"1", "2", "3", "4", "x"}
\* The availability a caller sends.
AvailableInputs == {TRUE, FALSE}
\* POST /api/orders: customer and flavor as the body gives them, the empty
\* text included.
CustomersAll == Customers \cup {""}
FlavorsAll == Flavors \cup {""}

VARIABLES
    drones,   \* dataStore.drones: sequence of [id, name, available]
    orders,   \* dataStore.orders: sequence of order records
    timers,   \* pending setTimeout callbacks, in the order they were scheduled
    last      \* the most recent call and its outcome

vars == <<drones, orders, timers, last>>

\* dataStore.js: the drones array the process starts with.
SeedDrones ==
    << [id |-> 1, name |-> "Droncito 1", available |-> TRUE],
       [id |-> 2, name |-> "PastelExpress", available |-> TRUE],
       [id |-> 3, name |-> "SweetFly", available |-> FALSE] >>

\* ----------------------------------------------------------------- helpers
\* Array.prototype.find as an index: the first of the indices whose
\* element satisfies the test, 0 when there is none.
First(S) ==
    IF S = {} THEN 0 ELSE CHOOSE i \in S : \A j \in S : i <= j

\* The last available drone of the array instead of the first.
FindAvailableDrone_Last(ds) ==
    LET S == {i \in 1..Len(ds) : ds[i].available} IN
    IF S = {} THEN 0 ELSE CHOOSE i \in S : \A j \in S : i >= j

\* drones.find((d) => d.available)
FindAvailableDrone(ds) ==
    First({i \in 1..Len(ds) : ds[i].available})

\* The drone looked up as drones[droneId]: the id used as a zero-based
\* index into the array.
FindDroneById_AsIndex(ds, droneId) ==
    IF droneId + 1 \in 1..Len(ds) THEN droneId + 1 ELSE 0

\* drones.find(d => d.id === droneId)
FindDroneById(ds, droneId) ==
    First({i \in 1..Len(ds) : ds[i].id = droneId})

\* orders.find(o => o.id === orderId)
FindOrderById(os, orderId) ==
    First({i \in 1..Len(os) : os[i].id = orderId})

\* The sequence without its i-th element.
RemoveAt(seq, i) ==
    [k \in 1..(Len(seq) - 1) |-> IF k < i THEN seq[k] ELSE seq[k + 1]]

\* ------------------------------------------------------ the service's code
\* createOrder with the second setTimeout (the "entregado" callback) left out.
ScheduledTimers_InFlightOnly(orderId) ==
    << [orderId |-> orderId, newStatus |-> EN_VUELO, delay |-> InFlightDelay,
        stale |-> FALSE] >>

\* The two callbacks createOrder schedules for the order it created.
\* "stale" is a mark for the properties, no state of the program: it is set
\* on the callbacks that are pending when reset is called.
ScheduledTimers(orderId) ==
    << [orderId |-> orderId, newStatus |-> EN_VUELO, delay |-> InFlightDelay,
        stale |-> FALSE],
       [orderId |-> orderId, newStatus |-> ENTREGADO, delay |-> DeliveredDelay,
        stale |-> FALSE] >>

\* NewOrder with droneId taken as the drone's zero-based place in the array
\* ("drones.indexOf(availableDrone)") instead of its id.
NewOrder_IndexAsId(os, drone, customer, flavor) ==
    [ id |-> Len(os) + 1,
      customer |-> customer,
      flavor |-> flavor,
      drone |-> drone.name,
      droneId |-> drone.id - 1,
      status |-> PREPARANDO,
      deliveredAt |-> "unset" ]

\* NewOrder with customer and flavor written to each other's field.
NewOrder_Swapped(os, drone, customer, flavor) ==
    [ id |-> Len(os) + 1,
      customer |-> flavor,
      flavor |-> customer,
      drone |-> drone.name,
      droneId |-> drone.id,
      status |-> PREPARANDO,
      deliveredAt |-> "unset" ]

\* NewOrder with the identifier taken as orders.length, the "+ 1" dropped.
NewOrder_IdFromLength(os, drone, customer, flavor) ==
    [ id |-> Len(os),
      customer |-> customer,
      flavor |-> flavor,
      drone |-> drone.name,
      droneId |-> drone.id,
      status |-> PREPARANDO,
      deliveredAt |-> "unset" ]

\* The order record createOrder builds.
NewOrder(os, drone, customer, flavor) ==
    [ id |-> Len(os) + 1,
      customer |-> customer,
      flavor |-> flavor,
      drone |-> drone.name,
      droneId |-> drone.id,
      status |-> PREPARANDO,
      deliveredAt |-> "unset" ]

\* createOrder without "availableDrone.available = false".
createOrder_NoReserve(os, ds, ts, customer, flavor) ==
    LET a == FindAvailableDrone(ds) IN
    IF a = 0
    THEN [orders |-> os, drones |-> ds, timers |-> ts,
          error |-> NoCapacity, returned |-> 0]
    ELSE LET newOrder == NewOrder(os, ds[a], customer, flavor) IN
         [orders |-> Append(os, newOrder),
          drones |-> ds,
          timers |-> ts \o ScheduledTimers(newOrder.id),
          error |-> NoError, returned |-> newOrder.id]

\* createOrder with the two setTimeout calls moved above the capacity check.
createOrder_TimersFirst(os, ds, ts, customer, flavor) ==
    LET a == FindAvailableDrone(ds) IN
    IF a = 0
    THEN [orders |-> os, drones |-> ds,
          timers |-> ts \o ScheduledTimers(Len(os) + 1),
          error |-> NoCapacity, returned |-> 0]
    ELSE LET newOrder == NewOrder(os, ds[a], customer, flavor) IN
         [orders |-> Append(os, newOrder),
          drones |-> [ds EXCEPT ![a].available = FALSE],
          timers |-> ts \o ScheduledTimers(newOrder.id),
          error |-> NoError, returned |-> newOrder.id]

\* createOrder(customer, flavor): the arrays and the pending callbacks after
\* the call, the error it throws (NoError when it returns) and the id of
\* the order it returns (0 when it throws).
createOrder(os, ds, ts, customer, flavor) ==
    LET a == FindAvailableDrone(ds) IN
    IF a = 0
    THEN [orders |-> os, drones |-> ds, timers |-> ts,
          error |-> NoCapacity, returned |-> 0]
    ELSE LET newOrder == NewOrder(os, ds[a], customer, flavor) IN
         [orders |-> Append(os, newOrder),
          drones |-> [ds EXCEPT ![a].available = FALSE],
          timers |-> ts \o ScheduledTimers(newOrder.id),
          error |-> NoError, returned |-> newOrder.id]

\* updateOrderStatus that marks the drone unavailable again when the order
\* is set to a status other than "entregado".
updateOrderStatus_Rehold(os, ds, orderId, newStatus) ==
    LET i == FindOrderById(os, orderId) IN
    IF i = 0
    THEN [orders |-> os, drones |-> ds, error |-> OrderNotFound, returned |-> 0]
    ELSE LET os1 == [os EXCEPT ![i].status = newStatus]
             d == FindDroneById(ds, os[i].droneId)
         IN IF d = 0
            THEN [orders |-> os1, drones |-> ds, error |-> NoError, returned |-> i]
            ELSE IF newStatus = ENTREGADO
            THEN [orders |-> [os1 EXCEPT ![i].deliveredAt = "set"],
                  drones |-> [ds EXCEPT ![d].available = TRUE],
                  error |-> NoError, returned |-> i]
            ELSE [orders |-> os1,
                  drones |-> [ds EXCEPT ![d].available = FALSE],
                  error |-> NoError, returned |-> i]

\* updateOrderStatus that frees the drone and stamps deliveredAt only when
\* the drone is still held: "if (drone && !drone.available)".
updateOrderStatus_StampIfHeld(os, ds, orderId, newStatus) ==
    LET i == FindOrderById(os, orderId) IN
    IF i = 0
    THEN [orders |-> os, drones |-> ds, error |-> OrderNotFound, returned |-> 0]
    ELSE LET os1 == [os EXCEPT ![i].status = newStatus]
             d == FindDroneById(ds, os[i].droneId)
         IN IF newStatus = ENTREGADO /\ d # 0 /\ ~ds[d].available
            THEN [orders |-> [os1 EXCEPT ![i].deliveredAt = "set"],
                  drones |-> [ds EXCEPT ![d].available = TRUE],
                  error |-> NoError, returned |-> i]
            ELSE [orders |-> os1, drones |-> ds, error |-> NoError, returned |-> i]

\* updateOrderStatus that removes deliveredAt when the new status is not
\* "entregado".
updateOrderStatus_ClearStamp(os, ds, orderId, newStatus) ==
    LET i == FindOrderById(os, orderId) IN
    IF i = 0
    THEN [orders |-> os, drones |-> ds, error |-> OrderNotFound, returned |-> 0]
    ELSE LET os1 == [os EXCEPT ![i].status = newStatus]
             d == FindDroneById(ds, os[i].droneId)
         IN IF newStatus = ENTREGADO /\ d # 0
            THEN [orders |-> [os1 EXCEPT ![i].deliveredAt = "set"],
                  drones |-> [ds EXCEPT ![d].available = TRUE],
                  error |-> NoError, returned |-> i]
            ELSE [orders |-> [os1 EXCEPT ![i].deliveredAt = "unset"],
                  drones |-> ds, error |-> NoError, returned |-> i]

\* updateOrderStatus that takes a delivered order out of the store.
updateOrderStatus_RemoveDelivered(os, ds, orderId, newStatus) ==
    LET i == FindOrderById(os, orderId) IN
    IF i = 0
    THEN [orders |-> os, drones |-> ds, error |-> OrderNotFound, returned |-> 0]
    ELSE LET os1 == [os EXCEPT ![i].status = newStatus]
             d == FindDroneById(ds, os[i].droneId)
         IN IF newStatus = ENTREGADO /\ d # 0
            THEN [orders |-> RemoveAt(os1, i),
                  drones |-> [ds EXCEPT ![d].available = TRUE],
                  error |-> NoError, returned |-> i]
            ELSE [orders |-> os1, drones |-> ds, error |-> NoError, returned |-> i]

\* updateOrderStatus with "return" in place of the throw for a missing order.
updateOrderStatus_NoThrow(os, ds, orderId, newStatus) ==
    LET i == FindOrderById(os, orderId) IN
    IF i = 0
    THEN [orders |-> os, drones |-> ds, error |-> NoError, returned |-> 0]
    ELSE LET os1 == [os EXCEPT ![i].status = newStatus]
             d == FindDroneById(ds, os[i].droneId)
         IN IF newStatus = ENTREGADO /\ d # 0
            THEN [orders |-> [os1 EXCEPT ![i].deliveredAt = "set"],
                  drones |-> [ds EXCEPT ![d].available = TRUE],
                  error |-> NoError, returned |-> i]
            ELSE [orders |-> os1, drones |-> ds, error |-> NoError, returned |-> i]

\* updateOrderStatus that clears the order's binding when it frees the drone.
updateOrderStatus_Unbind(os, ds, orderId, newStatus) ==
    LET i == FindOrderById(os, orderId) IN
    IF i = 0
    THEN [orders |-> os, drones |-> ds, error |-> OrderNotFound, returned |-> 0]
    ELSE LET os1 == [os EXCEPT ![i].status = newStatus]
             d == FindDroneById(ds, os[i].droneId)
         IN IF newStatus = ENTREGADO /\ d # 0
            THEN [orders |-> [os1 EXCEPT ![i].deliveredAt = "set",
                                         ![i].droneId = 0, ![i].drone = ""],
                  drones |-> [ds EXCEPT ![d].available = TRUE],
                  error |-> NoError, returned |-> i]
            ELSE [orders |-> os1, drones |-> ds, error |-> NoError, returned |-> i]

\* updateOrderStatus without "drone.available = true".
updateOrderStatus_NoRelease(os, ds, orderId, newStatus) ==
    LET i == FindOrderById(os, orderId) IN
    IF i = 0
    THEN [orders |-> os, drones |-> ds, error |-> OrderNotFound, returned |-> 0]
    ELSE LET os1 == [os EXCEPT ![i].status = newStatus]
             d == FindDroneById(ds, os[i].droneId)
         IN IF newStatus = ENTREGADO /\ d # 0
            THEN [orders |-> [os1 EXCEPT ![i].deliveredAt = "set"],
                  drones |-> ds,
                  error |-> NoError, returned |-> i]
            ELSE [orders |-> os1, drones |-> ds, error |-> NoError, returned |-> i]

\* updateOrderStatus(orderId, newStatus): the arrays after the call, the
\* error it throws (NoError when it returns) and the place in the store of
\* the order record it returns (0 when it throws).
updateOrderStatus(os, ds, orderId, newStatus) ==
    LET i == FindOrderById(os, orderId) IN
    IF i = 0
    THEN [orders |-> os, drones |-> ds, error |-> OrderNotFound, returned |-> 0]
    ELSE LET os1 == [os EXCEPT ![i].status = newStatus]
             d == FindDroneById(ds, os[i].droneId)
         IN IF newStatus = ENTREGADO /\ d # 0
            THEN [orders |-> [os1 EXCEPT ![i].deliveredAt = "set"],
                  drones |-> [ds EXCEPT ![d].available = TRUE],
                  error |-> NoError, returned |-> i]
            ELSE [orders |-> os1, drones |-> ds, error |-> NoError, returned |-> i]

\* completeOrder with the status misspelt: "entregada" for "entregado".
completeOrder_Misspelt(os, ds, orderId) ==
    updateOrderStatus(os, ds, orderId, "entregada")

\* completeOrder(orderId)
completeOrder(os, ds, orderId) ==
    updateOrderStatus(os, ds, orderId, ENTREGADO)

\* createOrder called k times in a row: the arrays and the pending
\* callbacks after the calls, the ids of the orders returned, in the order
\* of the calls, and whether every call returned.
RECURSIVE CreateMany(_, _, _, _, _, _)
CreateMany(os, ds, ts, customer, flavor, k) ==
    IF k = 0
    THEN [orders |-> os, drones |-> ds, timers |-> ts, ids |-> << >>, ok |-> TRUE]
    ELSE LET before == CreateMany(os, ds, ts, customer, flavor, k - 1)
             r == createOrder(before.orders, before.drones, before.timers,
                              customer, flavor)
         IN [orders |-> r.orders, drones |-> r.drones, timers |-> r.timers,
             ids |-> IF r.error = NoError
                     THEN Append(before.ids, r.returned) ELSE before.ids,
             ok |-> before.ok /\ r.error = NoError]

\* completeOrder called for each id of a list, in the order of the list:
\* the arrays after the calls and whether every call returned.
RECURSIVE CompleteEach(_, _, _)
CompleteEach(os, ds, ids) ==
    IF ids = << >>
    THEN [orders |-> os, drones |-> ds, ok |-> TRUE]
    ELSE LET r == completeOrder(os, ds, Head(ids))
             rest == CompleteEach(r.orders, r.drones, Tail(ids))
         IN [orders |-> rest.orders, drones |-> rest.drones,
             ok |-> r.error = NoError /\ rest.ok]

\* The callback without its try / catch.
timerCallback_NoCatch(os, ds, orderId, newStatus) ==
    LET r == updateOrderStatus(os, ds, orderId, newStatus) IN
    [orders |-> r.orders, drones |-> r.drones,
     caught |-> NoError, thrown |-> r.error]

\* A pending callback's body: updateOrderStatus inside try / catch.  The
\* error updateOrderStatus throws is caught and logged; nothing is thrown on
\* to the timer queue.
timerCallback(os, ds, orderId, newStatus) ==
    LET r == updateOrderStatus(os, ds, orderId, newStatus) IN
    [orders |-> r.orders, drones |-> r.drones,
     caught |-> r.error, thrown |-> NoError]

\* dataStore.js, reset: the drones pushed back into the emptied array.
ResetDrones ==
    << [id |-> 1, name |-> "Droncito 1", available |-> TRUE],
       [id |-> 2, name |-> "PastelExpress", available |-> TRUE],
       [id |-> 3, name |-> "SweetFly", available |-> TRUE] >>

\* reset without "orders.length = 0".
reset_KeepOrders(os, ds) ==
    [orders |-> os, drones |-> ResetDrones]

\* reset(): both arrays after the call.  The pending callbacks are not
\* touched: reset calls no clearTimeout.
reset(os, ds) ==
    [orders |-> << >>, drones |-> ResetDrones]

\* Number(id) for the texts a caller sends: the number the text spells,
\* NaN (here 0, which like NaN is no drone's id) for any other text.
Number(id) ==
    CASE id = "1" -> 1
      [] id = "2" -> 2
      [] id = "3" -> 3
      [] id = "4" -> 4
      [] OTHER -> 0

\* getAllOrders returning only the orders that are not delivered.
getAllOrders_ActiveOnly(os) ==
    SelectSeq(os, LAMBDA o : o.status # ENTREGADO)

\* getAllOrders(): the orders array itself.
getAllOrders(os) ==
    os

\* getAllDrones(): the drones array itself.
getAllDrones(ds) ==
    ds

\* orderService.getOrderById(orderId): the module exports createOrder,
\* getAllOrders, updateOrderStatus and completeOrder and no getOrderById,
\* so the call applies undefined and throws a TypeError; nothing is read or
\* written.
getOrderById(os, orderId) ==
    [orders |-> os, error |-> NotAFunction, returned |-> 0]

\* updateDroneStatus that puts a new object in the drone's place, built from
\* the call's arguments only: the name is lost.
updateDroneStatus_Overwrite(ds, id, available) ==
    LET d == FindDroneById(ds, Number(id)) IN
    IF d = 0
    THEN [drones |-> ds, error |-> DroneNotFound, returned |-> 0]
    ELSE [drones |-> [ds EXCEPT ![d] = [id |-> Number(id), name |-> "undefined",
                                        available |-> available]],
          error |-> NoError, returned |-> d]

\* updateDroneStatus with "drone.available = !drone.available": the flag
\* flipped instead of set.
updateDroneStatus_Toggle(ds, id, available) ==
    LET d == FindDroneById(ds, Number(id)) IN
    IF d = 0
    THEN [drones |-> ds, error |-> DroneNotFound, returned |-> 0]
    ELSE [drones |-> [ds EXCEPT ![d].available = ~ds[d].available],
          error |-> NoError, returned |-> d]

\* updateDroneStatus with "drone.available = !available".
updateDroneStatus_Negated(ds, id, available) ==
    LET d == FindDroneById(ds, Number(id)) IN
    IF d = 0
    THEN [drones |-> ds, error |-> DroneNotFound, returned |-> 0]
    ELSE [drones |-> [ds EXCEPT ![d].available = ~available],
          error |-> NoError, returned |-> d]

\* updateDroneStatus(id, available): the drones after the call, the error it
\* throws (NoError when it returns) and the place in the array of the drone
\* it returns (0 when it throws).
updateDroneStatus(ds, id, available) ==
    LET d == FindDroneById(ds, Number(id)) IN
    IF d = 0
    THEN [drones |-> ds, error |-> DroneNotFound, returned |-> 0]
    ELSE [drones |-> [ds EXCEPT ![d].available = available],
          error |-> NoError, returned |-> d]

\* ------------------------------------------------------------------ actions
Init ==
    /\ drones = SeedDrones
    /\ orders = << >>
    /\ timers = << >>
    /\ last = [op |-> "start"]

\* A call of a createOrder that takes any of the available drones, not the
\* first one (a registry kept in a collection without an order).
CallCreateOrder_AnyDrone(customer, flavor) ==
    \/ /\ FindAvailableDrone(drones) = 0
       /\ UNCHANGED <<orders, drones, timers>>
       /\ last' = [op |-> "createOrder", customer |-> customer,
                   flavor |-> flavor, error |-> NoCapacity, returned |-> 0]
    \/ \E a \in {d \in 1..Len(drones) : drones[d].available} :
          LET newOrder == NewOrder(orders, drones[a], customer, flavor) IN
          /\ orders' = Append(orders, newOrder)
          /\ drones' = [drones EXCEPT ![a].available = FALSE]
          /\ timers' = timers \o ScheduledTimers(newOrder.id)
          /\ last' = [op |-> "createOrder", customer |-> customer,
                      flavor |-> flavor, error |-> NoError,
                      returned |-> newOrder.id]

\* A call of createOrder.
CallCreateOrder(customer, flavor) ==
    LET r == createOrder(orders, drones, timers, customer, flavor) IN
    /\ orders' = r.orders
    /\ drones' = r.drones
    /\ timers' = r.timers
    /\ last' = [op |-> "createOrder", customer |-> customer, flavor |-> flavor,
                error |-> r.error, returned |-> r.returned]

\* A call of updateOrderStatus.
CallUpdateOrderStatus(orderId, newStatus) ==
    LET r == updateOrderStatus(orders, drones, orderId, newStatus) IN
    /\ orders' = r.orders
    /\ drones' = r.drones
    /\ last' = [op |-> "updateOrderStatus", orderId |-> orderId,
                newStatus |-> newStatus, error |-> r.error,
                returned |-> r.returned]
    /\ UNCHANGED timers

\* A call of completeOrder.
CallCompleteOrder(orderId) ==
    LET r == completeOrder(orders, drones, orderId) IN
    /\ orders' = r.orders
    /\ drones' = r.drones
    /\ last' = [op |-> "completeOrder", orderId |-> orderId, error |-> r.error,
                returned |-> r.returned]
    /\ UNCHANGED timers

\* A timer queue that runs the pending callbacks in any order.
MayRun_AnyOrder(ts, k) ==
    k \in 1..Len(ts)

\* The k-th pending callback may run: every callback scheduled before it
\* with a delay no longer than its own has run.
MayRun(ts, k) ==
    \A j \in 1..(k - 1) : ts[j].delay > ts[k].delay

\* A callback scheduled with setInterval instead of setTimeout: it runs and
\* stays pending.
TimerFires_Repeating(k) ==
    /\ MayRun(timers, k)
    /\ LET t == timers[k]
           r == timerCallback(orders, drones, t.orderId, t.newStatus)
       IN /\ orders' = r.orders
          /\ drones' = r.drones
          /\ last' = [op |-> "timer", orderId |-> t.orderId,
                      newStatus |-> t.newStatus, error |-> r.caught,
                      thrown |-> r.thrown]
          /\ timers' = timers

\* A pending callback runs.  An error that left the callback would end
\* the process, and the pending callbacks with it.
TimerFires(k) ==
    /\ MayRun(timers, k)
    /\ LET t == timers[k]
           r == timerCallback(orders, drones, t.orderId, t.newStatus)
       IN /\ orders' = r.orders
          /\ drones' = r.drones
          /\ last' = [op |-> "timer", orderId |-> t.orderId,
                      newStatus |-> t.newStatus, error |-> r.caught,
                      thrown |-> r.thrown]
          /\ timers' = IF r.thrown = NoError THEN RemoveAt(timers, k) ELSE << >>

\* A call of updateDroneStatus.
CallUpdateDroneStatus(id, available) ==
    LET r == updateDroneStatus(drones, id, available) IN
    /\ drones' = r.drones
    /\ last' = [op |-> "updateDroneStatus", droneId |-> id,
                available |-> available, error |-> r.error,
                returned |-> r.returned]
    /\ UNCHANGED <<orders, timers>>

\* The pending callbacks, each marked as scheduled before a reset.
MarkStale(ts) ==
    [k \in 1..Len(ts) |-> [ts[k] EXCEPT !.stale = TRUE]]

\* A call of reset.  Every pending callback stays pending; only the mark
\* for the properties is set.
CallReset ==
    LET r == reset(orders, drones) IN
    /\ orders' = r.orders
    /\ drones' = r.drones
    /\ last' = [op |-> "reset"]
    /\ timers' = MarkStale(timers)

\* Calls of createOrder, the store kept within the cap.
Create ==
    \E c \in Customers, f \in Flavors :
        CallCreateOrder(c, f) /\ Len(orders') <= MaxOrders

CreateAuto ==
    \E c \in Customers, f \in Flavors :
        CallCreateOrder(c, f) /\ Len(orders') <= MaxOrdersAuto

Update ==
    \E id \in OrderIdInputs, s \in StatusInputs : CallUpdateOrderStatus(id, s)

Complete ==
    \E id \in OrderIdInputs : CallCompleteOrder(id)

Timer ==
    \E k \in 1..Len(timers) : TimerFires(k)

Next ==
    \/ Create
    \/ Update
    \/ Complete
    \/ Timer

Spec == Init /\ [][Next]_vars

\* createOrder and the callbacks alone: nobody updates an order by hand.
NextAuto ==
    \/ CreateAuto
    \/ Timer

SpecAuto == Init /\ [][NextAuto]_vars

\* createOrder, completeOrder, the callbacks and reset.  The store and the
\* callbacks pending at once are kept within their caps.
CreateLife ==
    \E c \in Customers, f \in Flavors :
        /\ CallCreateOrder(c, f)
        /\ Len(orders') <= MaxOrdersLife
        /\ Len(timers') <= MaxTimers

NextLife ==
    \/ CreateLife
    \/ Complete
    \/ Timer
    \/ CallReset

SpecLife == Init /\ [][NextLife]_vars

\* createOrder, completeOrder, the callbacks and updateDroneStatus.
CreateDrone ==
    \E c \in Customers, f \in Flavors :
        CallCreateOrder(c, f) /\ Len(orders') <= MaxOrdersDrone

DroneUpdate ==
    \E id \in DroneIdInputs, a \in AvailableInputs : CallUpdateDroneStatus(id, a)

NextDrone ==
    \/ CreateDrone
    \/ Complete
    \/ Timer
    \/ DroneUpdate

SpecDrone == Init /\ [][NextDrone]_vars

\* createOrder with any customer and flavor, completeOrder and the callbacks.
CreateInput ==
    \E c \in CustomersAll, f \in FlavorsAll :
        CallCreateOrder(c, f) /\ Len(orders') <= MaxOrders

NextInput ==
    \/ CreateInput
    \/ Complete
    \/ Timer

SpecInput == Init /\ [][NextInput]_vars

\* Every operation but reset: createOrder, updateOrderStatus, completeOrder,
\* updateDroneStatus and the callbacks.
CreateStore ==
    \E c \in Customers, f \in Flavors :
        CallCreateOrder(c, f) /\ Len(orders') <= MaxOrdersStore

UpdateStore ==
    \E id \in 1..(MaxOrdersStore + 1), s \in StatusInputs :
        CallUpdateOrderStatus(id, s)

CompleteStore ==
    \E id \in 1..(MaxOrdersStore + 1) : CallCompleteOrder(id)

NextStore ==
    \/ CreateStore
    \/ UpdateStore
    \/ CompleteStore
    \/ DroneUpdate
    \/ Timer

SpecStore == Init /\ [][NextStore]_vars

\* A call of getAllOrders.
CallGetAllOrders ==
    /\ last' = [op |-> "getAllOrders", error |-> NoError,
                returned |-> getAllOrders(orders)]
    /\ UNCHANGED <<orders, drones, timers>>

\* A call of getAllDrones.
CallGetAllDrones ==
    /\ last' = [op |-> "getAllDrones", error |-> NoError,
                returned |-> getAllDrones(drones)]
    /\ UNCHANGED <<orders, drones, timers>>

\* A call of orderService.getOrderById, as the documented test makes it.
CallGetOrderById(orderId) ==
    LET r == getOrderById(orders, orderId) IN
    /\ orders' = r.orders
    /\ last' = [op |-> "getOrderById", orderId |-> orderId, error |-> r.error,
                returned |-> r.returned]
    /\ UNCHANGED <<drones, timers>>

GetById ==
    \E id \in OrderIdInputs : CallGetOrderById(id)

\* createOrder, completeOrder and the callbacks, with the read accessors
\* called in between.
NextRead ==
    \/ Create
    \/ Complete
    \/ Timer
    \/ CallGetAllOrders
    \/ CallGetAllDrones
    \/ GetById

SpecRead == Init /\ [][NextRead]_vars

\* The pending callback of an order for a status runs.
TimerOf(orderId, newStatus) ==
    \E k \in 1..Len(timers) :
        /\ timers[k].orderId = orderId
        /\ timers[k].newStatus = newStatus
        /\ TimerFires(k)

\* The runtime runs every callback whose time has come: a callback that may
\* run is not left pending for ever.
TimerFairness ==
    \A id \in 1..MaxOrdersFair : \A s \in {EN_VUELO, ENTREGADO} :
        WF_vars(TimerOf(id, s))

\* createOrder, updateOrderStatus, completeOrder and the callbacks, with
\* the callbacks that are due eventually run.
CreateFair ==
    \E c \in Customers, f \in Flavors :
        CallCreateOrder(c, f) /\ Len(orders') <= MaxOrdersFair

UpdateFair ==
    \E id \in 1..(MaxOrdersFair + 1), s \in StatusInputs :
        CallUpdateOrderStatus(id, s)

CompleteFair ==
    \E id \in 1..(MaxOrdersFair + 1) : CallCompleteOrder(id)

NextFair ==
    \/ CreateFair
    \/ UpdateFair
    \/ CompleteFair
    \/ Timer

SpecFair == Init /\ [][NextFair]_vars /\ TimerFairness

\* The same steps with nothing assumed about when a callback runs.
SpecManual == Init /\ [][NextFair]_vars

\* createOrder and the callbacks alone, with the callbacks that are due
\* eventually run.
TimerFairnessAuto ==
    \A id \in 1..MaxOrdersAuto : \A s \in {EN_VUELO, ENTREGADO} :
        WF_vars(TimerOf(id, s))

SpecAutoFair == Init /\ [][NextAuto]_vars /\ TimerFairnessAuto

\* ------------------------------------------------------------------ claims
\* The place in the drones array of the unit an order is bound to.
BoundDrone(o) == FindDroneById(drones, o.droneId)

\* The places in the store of the orders that are not delivered.
NonDelivered == {i \in 1..Len(orders) : orders[i].status # ENTREGADO}

\* The position of a status in preparando < en vuelo < entregado.
Rank(s) == IF s = PREPARANDO THEN 1 ELSE IF s = EN_VUELO THEN 2 ELSE 3

\* C1: in every reachable state, every order that is not delivered has its
\* bound drone marked available = false.
C1_NonDeliveredOrderHoldsItsDrone ==
    \A i \in NonDelivered : ~drones[BoundDrone(orders[i])].available

\* C2: no double release.  A step that turns a drone from unavailable to
\* available (the delivery of order last.orderId, by a call or by a
\* callback) never frees a drone that a different order, not delivered,
\* is bound to.
C2_NoDoubleRelease ==
    [][\A d \in 1..Len(drones) :
          (~drones[d].available /\ drones'[d].available) =>
              \A i \in 1..Len(orders') :
                  (orders'[i].droneId = drones[d].id /\ orders'[i].id # last'.orderId)
                      => orders'[i].status = ENTREGADO]_vars

\* C3: a callback of an order that runs when the order is already delivered
\* (the order was completed by hand before its callbacks ran) leaves the
\* order delivered.
C3_LateTimerKeepsDelivered ==
    [][\A i \in 1..Len(orders) :
          (last'.op = "timer" /\ orders[i].id = last'.orderId
              /\ orders[i].status = ENTREGADO)
          => orders'[i].status = ENTREGADO]_vars

\* C4: in every reachable state, no two distinct orders that are not
\* delivered are bound to the same drone.
C4_NoSharedDrone ==
    \A i, j \in NonDelivered : i # j => orders[i].droneId # orders[j].droneId

\* C5: with createOrder and the callbacks alone, the orders that are not
\* delivered are never more than the drones, and the drone of each of them
\* is marked available = false.
C5_CapacityRespected ==
    /\ Cardinality(NonDelivered) <= Len(drones)
    /\ \A i \in NonDelivered : ~drones[BoundDrone(orders[i])].available

\* C5 witness: two orders in flight or in preparation at once, after an
\* earlier order has been delivered by its callback.
C5_Witness ==
    /\ Cardinality(NonDelivered) = 2
    /\ \E i \in 1..Len(orders) : orders[i].status = ENTREGADO
    /\ last.op = "timer"

\* Every drone is marked available = false.
NoDroneAvailable == \A d \in 1..Len(drones) : ~drones[d].available

\* C6: createOrder called when every drone is unavailable throws "No hay
\* drones disponibles" and changes nothing: the store, the drones and the
\* pending callbacks are as before the call.
C6_NoCapacityChangesNothing ==
    [][(last'.op = "createOrder" /\ NoDroneAvailable) =>
          /\ last'.error = NoCapacity
          /\ last'.returned = 0
          /\ orders' = orders
          /\ drones' = drones
          /\ timers' = timers]_vars

\* C6 witness: createOrder has just thrown for want of a drone, with the
\* earlier orders in the store.
C6_Witness ==
    /\ last.op = "createOrder"
    /\ last.error = NoCapacity
    /\ NoDroneAvailable
    /\ Len(orders) = MaxOrders

\* C7: updateOrderStatus(id, s) with a valid s earlier in the lifecycle than
\* the order's status does not lower the order's status.
C7_NoBackwardTransition ==
    [][\A i \in 1..Len(orders) :
          (/\ last'.op = "updateOrderStatus"
           /\ orders[i].id = last'.orderId
           /\ last'.newStatus \in ValidStatuses
           /\ orders[i].status \in ValidStatuses
           /\ Rank(last'.newStatus) < Rank(orders[i].status))
          => Rank(orders'[i].status) >= Rank(orders[i].status)]_vars

\* C8: updateOrderStatus(id, s) for an order in the store and an s that is
\* none of the three statuses throws and leaves orders and drones unchanged.
C8_InvalidStatusRejected ==
    [][(/\ last'.op = "updateOrderStatus"
        /\ FindOrderById(orders, last'.orderId) # 0
        /\ last'.newStatus \notin ValidStatuses)
       => (last'.error # NoError /\ orders' = orders /\ drones' = drones)]_vars

\* C9: after completeOrder(id) for an order in the store, the call has
\* returned that order, the order is delivered, its deliveredAt is set and
\* the drone it is bound to is available.
C9_CompleteOrderDelivers ==
    LET i == FindOrderById(orders, last.orderId) IN
    (last.op = "completeOrder" /\ i # 0) =>
        /\ last.error = NoError
        /\ last.returned = i
        /\ orders[i].status = ENTREGADO
        /\ orders[i].deliveredAt = "set"
        /\ BoundDrone(orders[i]) # 0
        /\ drones[BoundDrone(orders[i])].available

\* C9 witness: completeOrder has just returned the second order, which was
\* not delivered by its own callback (that callback is still pending).
C9_Witness ==
    /\ last.op = "completeOrder"
    /\ last.error = NoError
    /\ last.orderId = 2
    /\ \E k \in 1..Len(timers) :
          timers[k].orderId = 2 /\ timers[k].newStatus = ENTREGADO

\* C10: the k-th order of the store has id k; a createOrder that returns
\* appends one order, returns its id, and that id is greater than every id
\* in the store before the call; a createOrder that throws leaves the
\* store, and so the next id, as it was.
C10_IdsIncrease ==
    /\ [](\A k \in 1..Len(orders) : orders[k].id = k)
    /\ [][last'.op = "createOrder" =>
            IF last'.error = NoError
            THEN /\ Len(orders') = Len(orders) + 1
                 /\ SubSeq(orders', 1, Len(orders)) = orders
                 /\ orders'[Len(orders')].id = last'.returned
                 /\ \A k \in 1..Len(orders) : orders[k].id < last'.returned
            ELSE orders' = orders]_vars

\* C10 witness: the second createOrder has returned id 2.
C10_Witness ==
    /\ last.op = "createOrder"
    /\ last.error = NoError
    /\ last.returned = 2
    /\ Len(orders) = 2

\* C11: a createOrder that returns binds the new order to the drone with
\* the lowest id among the drones that were available before the call.
C11_LowestAvailableDrone ==
    [][(last'.op = "createOrder" /\ last'.error = NoError) =>
          \E d \in 1..Len(drones) :
              /\ drones[d].available
              /\ orders'[Len(orders')].droneId = drones[d].id
              /\ \A e \in 1..Len(drones) :
                    drones[e].available => drones[d].id <= drones[e].id]_vars

\* C11 witness: with the three drones available (after reset), create,
\* create, completeOrder(1), create has bound drones 1, 2 and then 1 again,
\* ahead of drone 3, which is still available.
C11_Witness ==
    /\ last.op = "createOrder"
    /\ last.error = NoError
    /\ Len(orders) = 3
    /\ orders[1].droneId = 1 /\ orders[1].status = ENTREGADO
    /\ orders[2].droneId = 2 /\ orders[2].status # ENTREGADO
    /\ orders[3].droneId = 1
    /\ drones[3].available

\* C12: in every reachable state, from the state the process starts in, a
\* drone is available if and only if no order that is not delivered is
\* bound to it.
C12_AvailableIffUnbound ==
    \A d \in 1..Len(drones) :
        drones[d].available <=>
            ~\E i \in NonDelivered : orders[i].droneId = drones[d].id

\* C13: reset cancels the pending callbacks.  A callback that was scheduled
\* before a reset and runs after it changes no order and no drone.
C13_StaleTimerChangesNothing ==
    [][\A k \in 1..Len(timers) :
          (/\ last'.op = "timer"
           /\ timers[k].stale
           /\ MayRun(timers, k)
           /\ timers' = RemoveAt(timers, k))
          => (orders' = orders /\ drones' = drones)]_vars

C15_MissingOrderRejected ==
    [][(/\ last'.op \in {"updateOrderStatus", "completeOrder"}
        /\ \A i \in 1..Len(orders) : orders[i].id # last'.orderId)
       => /\ last'.error = OrderNotFound
          /\ last'.returned = 0
          /\ orders' = orders
          /\ drones' = drones
          /\ timers' = timers]_vars

\* C15 witness: updateOrderStatus has just thrown for an id beyond the two
\* orders of the store.
C15_Witness ==
    /\ last.op = "updateOrderStatus"
    /\ last.error = OrderNotFound
    /\ last.orderId = 3
    /\ Len(orders) = 2

\* The places in the drones array of the drones a caller's id names.
Named(id) == {d \in 1..Len(drones) : drones[d].id = Number(id)}

\* C16: updateDroneStatus(id, value) sets the flag of the drone the id names
\* to value, leaves every other drone as it was and returns that drone;
\* when the id names no drone it throws "Dron no encontrado" and leaves
\* every drone as it was.  It touches neither orders nor callbacks.
C16_UpdateDroneStatus ==
    [][last'.op = "updateDroneStatus" =>
          /\ orders' = orders /\ timers' = timers
          /\ Len(drones') = Len(drones)
          /\ IF Named(last'.droneId) = {}
             THEN /\ last'.error = DroneNotFound
                  /\ last'.returned = 0
                  /\ drones' = drones
             ELSE /\ last'.error = NoError
                  /\ last'.returned \in Named(last'.droneId)
                  /\ \A d \in 1..Len(drones) :
                        IF d \in Named(last'.droneId)
                        THEN drones'[d] =
                                [drones[d] EXCEPT !.available = last'.available]
                        ELSE drones'[d] = drones[d]]_vars

\* C16 witness: updateDroneStatus("3", true) has just made drone 3, which
\* the process starts with unavailable, available.
C16_Witness ==
    /\ last.op = "updateDroneStatus"
    /\ last.error = NoError
    /\ last.droneId = "3"
    /\ last.returned = 3
    /\ drones[3].available
    /\ Len(orders) > 0

\* C17: createOrder with an empty customer or an empty flavor throws and
\* creates no order, reserves no drone and schedules no callback.
C17_EmptyInputRejected ==
    [][(last'.op = "createOrder" /\ (last'.customer = "" \/ last'.flavor = ""))
       => /\ last'.error # NoError
          /\ orders' = orders
          /\ drones' = drones
          /\ timers' = timers]_vars

\* C18: a callback whose order is no longer in the store throws nothing on
\* to the timer queue (the error is caught), changes no order and no
\* drone, and leaves every other pending callback pending.
C18_FailedTimerIsCaught ==
    [][(/\ last'.op = "timer"
        /\ \A i \in 1..Len(orders) : orders[i].id # last'.orderId)
       => /\ last'.error = OrderNotFound
          /\ last'.thrown = NoError
          /\ orders' = orders
          /\ drones' = drones
          /\ \E k \in 1..Len(timers) :
                /\ timers[k].orderId = last'.orderId
                /\ timers[k].newStatus = last'.newStatus
                /\ timers' = RemoveAt(timers, k)]_vars

\* C18 witness: after a reset emptied the store, a callback has just failed
\* to find its order, and other callbacks are still pending.
C18_Witness ==
    /\ last.op = "timer"
    /\ last.error = OrderNotFound
    /\ Len(timers) >= 2

\* C19: updateDroneStatus does not change the availability of a drone that
\* an order that is not delivered is bound to.
C19_OnlyEngineWritesAvailability ==
    [][last'.op = "updateDroneStatus" =>
          \A d \in 1..Len(drones) :
              (\E i \in NonDelivered : orders[i].droneId = drones[d].id)
                  => drones'[d].available = drones[d].available]_vars

\* C20: no step other than a reset, which empties the store, removes an
\* order or changes an order's id, droneId or drone name.
C20_BindingNeverChanges ==
    [][last'.op # "reset" =>
          \A i \in 1..Len(orders) :
              /\ Len(orders') >= i
              /\ orders'[i].id = orders[i].id
              /\ orders'[i].droneId = orders[i].droneId
              /\ orders'[i].drone = orders[i].drone]_vars

\* C20 witness: the first order, updated by hand and then delivered by its
\* callback, is still bound to drone 1, while a later order holds drone 2.
C20_Witness ==
    /\ last.op = "timer"
    /\ last.orderId = 1
    /\ Len(orders) = 2
    /\ orders[1].status = ENTREGADO
    /\ orders[1].droneId = 1 /\ orders[1].drone = "Droncito 1"
    /\ orders[2].droneId = 2 /\ orders[2].drone = "PastelExpress"

\* C21: in every reachable state, an order carries deliveredAt only if its
\* status is "entregado".
C21_DeliveredAtOnlyWhenDelivered ==
    \A i \in 1..Len(orders) :
        orders[i].deliveredAt = "set" => orders[i].status = ENTREGADO

\* C22: when every pending callback eventually runs, an order that
\* createOrder has returned is eventually delivered with its drone marked
\* available, whatever updateOrderStatus and completeOrder calls come in
\* between.
C22_EveryOrderDelivered ==
    \A i \in 1..MaxOrdersFair :
        (last.op = "createOrder" /\ last.error = NoError /\ last.returned = i)
            ~> (/\ Len(orders) >= i
                /\ orders[i].status = ENTREGADO
                /\ BoundDrone(orders[i]) # 0
                /\ drones[BoundDrone(orders[i])].available)

\* C22 witness: the order has just been delivered by its own 10 s callback,
\* the last one pending, and its drone is available.
C22_Witness ==
    /\ last.op = "timer"
    /\ last.orderId = 1
    /\ last.newStatus = ENTREGADO
    /\ last.error = NoError
    /\ orders[1].status = ENTREGADO
    /\ drones[BoundDrone(orders[1])].available
    /\ timers = << >>

\* A callback of the order with this id for this status is pending.
Pending(orderId, newStatus) ==
    \E k \in 1..Len(timers) :
        timers[k].orderId = orderId /\ timers[k].newStatus = newStatus

\* C23: with createOrder and the callbacks alone, an order's status goes
\* preparando -> en vuelo -> entregado and no other way.  An order is
\* created "preparando" with both callbacks pending; its 3 s callback runs
\* first and sets "en vuelo"; its 10 s callback runs second, sets
\* "entregado" and frees the drone; until then the drone stays unavailable;
\* and when the callbacks that are due eventually run, every order gets to
\* "entregado".
C23_StatusHistory ==
    /\ [](\A i \in 1..Len(orders) :
            /\ orders[i].status \in ValidStatuses
            /\ orders[i].status = PREPARANDO =>
                  (Pending(orders[i].id, EN_VUELO) /\ Pending(orders[i].id, ENTREGADO))
            /\ orders[i].status = EN_VUELO =>
                  (~Pending(orders[i].id, EN_VUELO) /\ Pending(orders[i].id, ENTREGADO))
            /\ orders[i].status = ENTREGADO =>
                  (~Pending(orders[i].id, EN_VUELO) /\ ~Pending(orders[i].id, ENTREGADO))
            /\ orders[i].status # ENTREGADO =>
                  ~drones[BoundDrone(orders[i])].available)
    /\ [][/\ Len(orders') > Len(orders) =>
                orders'[Len(orders')].status = PREPARANDO
          /\ \A i \in 1..Len(orders) :
                orders'[i].status # orders[i].status =>
                    /\ last'.op = "timer"
                    /\ last'.orderId = orders[i].id
                    /\ last'.newStatus = orders'[i].status
                    /\ \/ /\ orders[i].status = PREPARANDO
                          /\ orders'[i].status = EN_VUELO
                          /\ drones' = drones
                       \/ /\ orders[i].status = EN_VUELO
                          /\ orders'[i].status = ENTREGADO
                          /\ drones'[BoundDrone(orders[i])].available]_vars
    /\ \A i \in 1..MaxOrdersAuto :
          (Len(orders) >= i) ~> (Len(orders) >= i /\ orders[i].status = ENTREGADO)

\* C23 witness: the first order has just been delivered by its 10 s
\* callback and its drone is free, while the second order, created later, is
\* "en vuelo" and still holds its drone.
C23_Witness ==
    /\ last.op = "timer"
    /\ last.orderId = 1
    /\ last.newStatus = ENTREGADO
    /\ Len(orders) >= 2
    /\ orders[1].status = ENTREGADO
    /\ drones[BoundDrone(orders[1])].available
    /\ orders[2].status = EN_VUELO
    /\ ~drones[BoundDrone(orders[2])].available

\* C24: the store only grows, and only by createOrder.  A createOrder that
\* returns appends one order behind those already there; every other step
\* (updateOrderStatus, completeOrder, updateDroneStatus, a callback, a
\* createOrder that throws) leaves the store with the same orders in the
\* same places; and a createOrder that throws leaves nothing behind that
\* could create the order later: no callback is scheduled.
C24_StoreAppendOnly ==
    [][/\ \A i \in 1..Len(orders) :
             Len(orders') >= i /\ orders'[i].id = orders[i].id
       /\ IF last'.op = "createOrder" /\ last'.error = NoError
          THEN Len(orders') = Len(orders) + 1
          ELSE Len(orders') = Len(orders)
       /\ (last'.op = "createOrder" /\ last'.error # NoError) =>
             (orders' = orders /\ timers' = timers)
       /\ last'.op # "createOrder" => Len(timers') <= Len(timers)]_vars

\* C24 witness: createOrder has just thrown for want of a drone while a
\* delivered order, whose drone was released, is still listed.
C24_Witness ==
    /\ last.op = "createOrder"
    /\ last.error = NoCapacity
    /\ \E i \in 1..Len(orders) : orders[i].status = ENTREGADO

\* The places in an array of drones of those marked available.
AvailableIn(ds) == {d \in 1..Len(ds) : ds[d].available}

\* C25: a createOrder(customer, flavor) that returns does all of this in
\* one step: it appends exactly one order, with the given customer and
\* flavor, status "preparando", no deliveredAt, and the id and name of a
\* drone that was available before the call; it marks that drone, and no
\* other, unavailable; and it leaves every order that was in the store as it
\* was.
C25_CreateOrderEffect ==
    [][(last'.op = "createOrder" /\ last'.error = NoError) =>
          /\ Len(orders') = Len(orders) + 1
          /\ SubSeq(orders', 1, Len(orders)) = orders
          /\ orders'[Len(orders')].customer = last'.customer
          /\ orders'[Len(orders')].flavor = last'.flavor
          /\ orders'[Len(orders')].status = PREPARANDO
          /\ orders'[Len(orders')].deliveredAt = "unset"
          /\ \E d \in AvailableIn(drones) :
                /\ orders'[Len(orders')].droneId = drones[d].id
                /\ orders'[Len(orders')].drone = drones[d].name
                /\ drones' = [drones EXCEPT ![d].available = FALSE]
          /\ Cardinality(AvailableIn(drones')) =
                Cardinality(AvailableIn(drones)) - 1]_vars

\* C25 witness: createOrder("Ana", "chocolate") has just returned the second
\* order, bound to the drone the first order, delivered and still listed,
\* gave back.
C25_Witness ==
    /\ last.op = "createOrder"
    /\ last.error = NoError
    /\ last.customer = "Ana" /\ last.flavor = "chocolate"
    /\ Len(orders) = 2
    /\ orders[1].status = ENTREGADO
    /\ orders[2].droneId = orders[1].droneId
    /\ orders[2].customer = "Ana" /\ orders[2].flavor = "chocolate"

\* C26: updateDroneStatus is idempotent.  In every reachable state, for
\* every id that names a drone and every value, the call returns, the same
\* call made again right after it returns too, and the second call returns
\* the same drone and leaves the drones as the first call left them.
C26_UpdateDroneStatusIdempotent ==
    \A id \in DroneIdInputs, a \in AvailableInputs :
        Named(id) # {} =>
            LET once == updateDroneStatus(drones, id, a)
                twice == updateDroneStatus(once.drones, id, a)
            IN /\ once.error = NoError
               /\ twice.error = NoError
               /\ twice.returned = once.returned
               /\ twice.drones = once.drones

\* C26 witness: updateDroneStatus("2", false) has just returned while orders
\* are in the store, and the same call again would leave the drones as
\* they are.
C26_Witness ==
    /\ last.op = "updateDroneStatus"
    /\ last.error = NoError
    /\ last.droneId = "2"
    /\ last.available = FALSE
    /\ Len(orders) > 0
    /\ updateDroneStatus(drones, "2", FALSE).drones = drones

\* C27: completeOrder(id) for an order that is already delivered returns,
\* leaves the order delivered and leaves the availability of every drone as
\* it was before the call.
C27_RedeliveryChangesNoDrone ==
    [][\A i \in 1..Len(orders) :
          (/\ last'.op = "completeOrder"
           /\ orders[i].id = last'.orderId
           /\ orders[i].status = ENTREGADO)
          => /\ last'.error = NoError
             /\ orders'[i].status = ENTREGADO
             /\ \A d \in 1..Len(drones) :
                   drones'[d].available = drones[d].available]_vars

\* C28: completeOrder(id) does what updateOrderStatus(id, "entregado") does.
\* In every reachable state and for every id, in the store or not, the two
\* calls give the same orders, the same drones and the same result or
\* error; and every call of completeOrder that is made leaves the state that
\* updateOrderStatus(id, "entregado") would have left, pending callbacks
\* included.
C28_CompleteIsUpdateToDelivered ==
    /\ [](\A id \in OrderIdInputs :
            completeOrder(orders, drones, id)
                = updateOrderStatus(orders, drones, id, ENTREGADO))
    /\ [][last'.op = "completeOrder" =>
            LET r == updateOrderStatus(orders, drones, last'.orderId, ENTREGADO)
            IN /\ orders' = r.orders
               /\ drones' = r.drones
               /\ timers' = timers
               /\ last'.error = r.error
               /\ last'.returned = r.returned]_vars

\* C28 witness: completeOrder(2) has just delivered the second order while
\* the first is not delivered, and completeOrder(3) would throw.
C28_Witness ==
    /\ last.op = "completeOrder"
    /\ last.error = NoError
    /\ last.orderId = 2
    /\ orders[2].status = ENTREGADO
    /\ orders[1].status # ENTREGADO
    /\ completeOrder(orders, drones, 3).error = OrderNotFound

\* C29: getAllOrders and getAllDrones never throw and change nothing: the
\* orders, the drones and the pending callbacks are after the call as
\* before it.  getAllOrders returns every order of the store in the order
\* the orders were created (ids 1, 2, ...), getAllDrones every drone in the
\* order of the registry.
C29_AccessorsReadOnly ==
    [][/\ last'.op \in {"getAllOrders", "getAllDrones"} =>
             /\ last'.error = NoError
             /\ orders' = orders
             /\ drones' = drones
             /\ timers' = timers
       /\ last'.op = "getAllOrders" =>
             /\ last'.returned = orders
             /\ \A k \in 1..Len(last'.returned) : last'.returned[k].id = k
       /\ last'.op = "getAllDrones" =>
             /\ last'.returned = drones
             /\ Len(last'.returned) = Len(SeedDrones)
             /\ \A k \in 1..Len(last'.returned) :
                   last'.returned[k].id = SeedDrones[k].id]_vars

\* C29 witness: getAllOrders has just returned two orders, the first of
\* them delivered, while callbacks are pending.
C29_Witness ==
    /\ last.op = "getAllOrders"
    /\ Len(last.returned) = 2
    /\ last.returned[1].status = ENTREGADO
    /\ last.returned[2].status # ENTREGADO
    /\ timers # << >>

\* C30: orderService.getOrderById(id) returns the order with that id when
\* the store has one, throws "Orden no encontrada" when it has none, and
\* changes nothing either way.
C30_GetOrderById ==
    [][last'.op = "getOrderById" =>
          /\ orders' = orders
          /\ drones' = drones
          /\ timers' = timers
          /\ IF FindOrderById(orders, last'.orderId) # 0
             THEN /\ last'.error = NoError
                  /\ last'.returned = FindOrderById(orders, last'.orderId)
             ELSE last'.error = OrderNotFound]_vars

\* What the operation named in a call record does to orders and drones
\* when it is applied to the given arrays.
Outcome(os, ds, ts, call) ==
    CASE call.op = "createOrder" ->
            LET r == createOrder(os, ds, ts, call.customer, call.flavor)
            IN [orders |-> r.orders, drones |-> r.drones]
      [] call.op = "updateOrderStatus" ->
            LET r == updateOrderStatus(os, ds, call.orderId, call.newStatus)
            IN [orders |-> r.orders, drones |-> r.drones]
      [] call.op = "completeOrder" ->
            LET r == completeOrder(os, ds, call.orderId)
            IN [orders |-> r.orders, drones |-> r.drones]
      [] call.op = "timer" ->
            LET r == timerCallback(os, ds, call.orderId, call.newStatus)
            IN [orders |-> r.orders, drones |-> r.drones]
      [] OTHER -> [orders |-> os, drones |-> ds]

C32_OnlyCreateReserves ==
    [][\A d \in 1..Len(drones) :
          (drones[d].available /\ ~drones'[d].available) =>
              /\ last'.op = "createOrder"
              /\ last'.error = NoError
              /\ orders'[Len(orders')].droneId = drones[d].id]_vars

\* C32 witness: the 3 s callback of an order that was completed by hand has
\* just run, and the order's drone is still available.
C32_Witness ==
    /\ last.op = "timer"
    /\ last.newStatus = EN_VUELO
    /\ last.error = NoError
    /\ orders[last.orderId].deliveredAt = "set"
    /\ drones[BoundDrone(orders[last.orderId])].available

\* C33: the registry is fixed.  In every state reached by createOrder,
\* updateOrderStatus, completeOrder, updateDroneStatus and the callbacks,
\* the drones are those the process started with, in the same places, with
\* the same ids and names; only the availability flags differ.
C33_RegistryFixed ==
    /\ Len(drones) = Len(SeedDrones)
    /\ \A d \in 1..Len(SeedDrones) :
          /\ DOMAIN drones[d] = DOMAIN SeedDrones[d]
          /\ drones[d].id = SeedDrones[d].id
          /\ drones[d].name = SeedDrones[d].name
          /\ drones[d].available \in BOOLEAN

\* C33 witness: updateDroneStatus("1", true) has just returned while an
\* order that is not delivered is bound to drone 1, and every flag differs
\* from the one the process started with.
C33_Witness ==
    /\ last.op = "updateDroneStatus"
    /\ last.droneId = "1"
    /\ last.error = NoError
    /\ \E i \in NonDelivered : orders[i].droneId = 1
    /\ \A d \in 1..Len(drones) : drones[d].available # SeedDrones[d].available

\* C34: create / complete round trip.  From every reachable state, with a
\* drones available, createOrder called k <= a times in a row returns every
\* time, leaves exactly k more drones unavailable and binds the k new
\* orders to k different drones; completeOrder then called for each of the
\* k orders, no callback running in between, returns every time and leaves
\* a drones available again.
C34_CreateCompleteRoundTrip ==
    \A c \in Customers, f \in Flavors :
        \A k \in 0..Cardinality(AvailableIn(drones)) :
            LET made == CreateMany(orders, drones, timers, c, f, k)
                done == CompleteEach(made.orders, made.drones, made.ids)
            IN /\ made.ok
               /\ Len(made.ids) = k
               /\ Len(made.orders) = Len(orders) + k
               /\ Cardinality(AvailableIn(made.drones))
                     = Cardinality(AvailableIn(drones)) - k
               /\ \A x, y \in 1..k :
                     x # y =>
                        made.orders[FindOrderById(made.orders, made.ids[x])].droneId
                          # made.orders[FindOrderById(made.orders, made.ids[y])].droneId
               /\ done.ok
               /\ Cardinality(AvailableIn(done.drones))
                     = Cardinality(AvailableIn(drones))

\* C34 witness: with the three drones available, three orders were created
\* and then completed one after the other; no callback has run (all six are
\* pending) and the three drones are available again.
C34_Witness ==
    /\ last.op = "completeOrder"
    /\ last.error = NoError
    /\ Len(orders) = 3
    /\ \A i \in 1..3 : orders[i].status = ENTREGADO
    /\ \A i, j \in 1..3 : i # j => orders[i].droneId # orders[j].droneId
    /\ Len(timers) = 6
    /\ \A t \in 1..6 : ~timers[t].stale
    /\ Cardinality(AvailableIn(drones)) = 3

\* C35: in every reachable state, every order whose status is "entregado"
\* has its deliveredAt set, whether updateOrderStatus, completeOrder or a
\* callback delivered it.
C35_DeliveredHasDeliveredAt ==
    \A i \in 1..Len(orders) :
        orders[i].status = ENTREGADO => orders[i].deliveredAt = "set"

\* C35 witness: the first order has just been delivered by its 10 s
\* callback, and the second was delivered by a call (its own 10 s callback
\* is still pending); both carry deliveredAt.
C35_Witness ==
    /\ last.op = "timer"
    /\ last.orderId = 1
    /\ last.newStatus = ENTREGADO
    /\ Len(orders) = 2
    /\ orders[1].status = ENTREGADO /\ orders[1].deliveredAt = "set"
    /\ orders[2].status = ENTREGADO /\ orders[2].deliveredAt = "set"
    /\ Pending(2, ENTREGADO)

\* C36: a createOrder that returns schedules exactly two callbacks, both for
\* the id of the new order: "en vuelo" after 3 s and "entregado" after
\* 10 s; a createOrder that throws schedules none, and no other call
\* schedules or cancels any.  A callback that runs is no longer pending (it
\* runs once), no two pending callbacks are for the same order and status,
\* and a callback changes no order but the one with its id and no drone
\* but that order's.
C36_TwoTimersPerOrder ==
    /\ [](\A j, k \in 1..Len(timers) :
            /\ FindOrderById(orders, timers[k].orderId) # 0
            /\ timers[k].delay =
                  (IF timers[k].newStatus = EN_VUELO
                   THEN InFlightDelay ELSE DeliveredDelay)
            /\ (j # k) =>
                  (\/ timers[j].orderId # timers[k].orderId
                   \/ timers[j].newStatus # timers[k].newStatus))
    /\ [][/\ (last'.op = "createOrder" /\ last'.error = NoError) =>
                /\ Len(timers') = Len(timers) + 2
                /\ SubSeq(timers', 1, Len(timers)) = timers
                /\ timers'[Len(timers) + 1].orderId = orders'[Len(orders')].id
                /\ timers'[Len(timers) + 1].newStatus = EN_VUELO
                /\ timers'[Len(timers) + 1].delay = InFlightDelay
                /\ timers'[Len(timers) + 2].orderId = orders'[Len(orders')].id
                /\ timers'[Len(timers) + 2].newStatus = ENTREGADO
                /\ timers'[Len(timers) + 2].delay = DeliveredDelay
          /\ (last'.op # "timer" /\ ~(last'.op = "createOrder" /\ last'.error = NoError))
                => timers' = timers
          /\ last'.op = "timer" =>
                /\ \E k \in 1..Len(timers) :
                      /\ timers[k].orderId = last'.orderId
                      /\ timers[k].newStatus = last'.newStatus
                      /\ timers' = RemoveAt(timers, k)
                /\ \A k \in 1..Len(timers') :
                      \/ timers'[k].orderId # last'.orderId
                      \/ timers'[k].newStatus # last'.newStatus
                /\ \A i \in 1..Len(orders) :
                      orders[i].id # last'.orderId => orders'[i] = orders[i]
                /\ \A d \in 1..Len(drones) :
                      (\A i \in 1..Len(orders) :
                          orders[i].id = last'.orderId
                              => orders[i].droneId # drones[d].id)
                      => drones'[d] = drones[d]]_vars

\* C36 witness: the 3 s callback of the first order has just run; its 10 s
\* callback and both callbacks of the second order are pending.
C36_Witness ==
    /\ last.op = "timer"
    /\ last.orderId = 1
    /\ last.newStatus = EN_VUELO
    /\ Len(timers) = 3
    /\ Pending(1, ENTREGADO)
    /\ Pending(2, EN_VUELO) /\ Pending(2, ENTREGADO)

\* C37: updateOrderStatus(id, s) changes only the order with that id.
\* Every other order is as before, the order itself keeps its id, customer,
\* flavor and drone, and the pending callbacks are as before; when s is
\* not "entregado" the flag of every drone and the order's deliveredAt are
\* as before too.
C37_UpdateOrderStatusFrame ==
    [][last'.op = "updateOrderStatus" =>
          /\ Len(orders') = Len(orders)
          /\ timers' = timers
          /\ \A i \in 1..Len(orders) :
                IF orders[i].id # last'.orderId
                THEN orders'[i] = orders[i]
                ELSE /\ orders'[i].id = orders[i].id
                     /\ orders'[i].customer = orders[i].customer
                     /\ orders'[i].flavor = orders[i].flavor
                     /\ orders'[i].drone = orders[i].drone
                     /\ orders'[i].droneId = orders[i].droneId
                     /\ orders'[i].status = last'.newStatus
                     /\ last'.newStatus # ENTREGADO =>
                           orders'[i].deliveredAt = orders[i].deliveredAt
          /\ last'.newStatus # ENTREGADO => drones' = drones]_vars

\* C37 witness: updateOrderStatus(1, "preparando") has just been applied to
\* the first order, which was delivered: it still carries deliveredAt, its
\* drone is still available, and the second order is as it was, delivered.
C37_Witness ==
    /\ last.op = "updateOrderStatus"
    /\ last.orderId = 1
    /\ last.newStatus = PREPARANDO
    /\ last.error = NoError
    /\ Len(orders) = 2
    /\ orders[1].status = PREPARANDO
    /\ orders[1].deliveredAt = "set"
    /\ drones[BoundDrone(orders[1])].available
    /\ orders[2].status = ENTREGADO

\* C38: in every reachable state, resets included, the drone an order names
\* by droneId is in the registry, and the drone name the order carries is
\* that drone's name.
C38_DroneNameMatchesRegistry ==
    \A i \in 1..Len(orders) :
        /\ BoundDrone(orders[i]) # 0
        /\ drones[BoundDrone(orders[i])].id = orders[i].droneId
        /\ drones[BoundDrone(orders[i])].name = orders[i].drone

\* C38 witness: after a reset made drone 3 available, createOrder has just
\* bound the third order to it, under its name "SweetFly", the first two
\* orders holding "Droncito 1" and "PastelExpress".
C38_Witness ==
    /\ last.op = "createOrder"
    /\ last.error = NoError
    /\ Len(orders) = 3
    /\ orders[1].drone = "Droncito 1" /\ orders[1].droneId = 1
    /\ orders[2].drone = "PastelExpress" /\ orders[2].droneId = 2
    /\ orders[3].drone = "SweetFly" /\ orders[3].droneId = 3

====
